---- MODULE Spec2Model ----
(***************************************************************************)
(* Batch API load test (locust/locustfile.py): the six-task BatchWorkflow  *)
(* of one simulated user, and the shared API key bootstrap of BatchUser.   *)
(*                                                                         *)
(* Users are greenlets: a user runs until its next HTTP call or sleep, so  *)
(* every action below is the code between two such points.                 *)
(***************************************************************************)
EXTENDS Integers, Sequences, FiniteSets, TLC

\* Number of simulated users of the key bootstrap specification.
NumUsers == 2

\* Most non-terminal answers the server gives to one poll step in the runs
\* of two concurrent workflows.
MaxPending == 1

Users == 1..NumUsers

\* Python's None, and the truth value of an optional string ("if not x").
None == "None"

Truthy(x) == x /= None /\ x /= ""

-----------------------------------------------------------------------------
(* Values the server may put in its responses.                             *)

FileIds == {"file-abc", "file-xyz"}

BatchIds == {"batch-1"}

OutputIds == {"file-out-1"}

ErrorIds == {"file-err-1"}

Keys == {"sk-1", "sk-2"}

\* Statuses the poll loop recognises (locustfile.py lines 185 and 191).
Terminal == {"completed", "failed", "cancelled", "expired"}

NonTerminal == {"in_progress", "validating", "finalizing"}

\* What a "status" field may hold: a recognised value, another one, or nothing.
StatusValues == Terminal \cup NonTerminal \cup {"paused", None}

\* A response body: a JSON object, text that is not JSON (response.json()
\* raises JSONDecodeError), or JSON that is not an object (.get raises
\* AttributeError, which no except clause of the file catches).
BodyKinds == {"object", "invalid", "other"}

StatusCodes == {200, 201, 500}

\* One shape for every response; the fields an endpoint does not send are None.
Response(code, body, id, status, out, err, key) ==
    [status_code |-> code, body |-> body, id |-> id, status |-> status,
     output_file_id |-> out, error_file_id |-> err, key |-> key]

NoResponse == Response(0, "invalid", None, None, None, None, None)

\* POST /ai/v1/files and POST /ai/v1/batches answer with an id.
IdResponses(ids) ==
    {Response(c, "object", x, None, None, None, None) :
        c \in StatusCodes, x \in ids \cup {None, ""}}
    \cup {Response(c, b, None, None, None, None, None) :
        c \in StatusCodes, b \in {"invalid", "other"}}

\* GET /ai/v1/batches/{id}: a 200 with any status, the file ids in any
\* combination when the batch has finished and both absent or both present
\* otherwise; a 200 whose body is no object; and two non-200 responses, one
\* of them carrying the body of a finished batch.
PollResponses ==
    {Response(200, "object", None, s, o, e, None) :
        s \in Terminal, o \in OutputIds \cup {None}, e \in ErrorIds \cup {None}}
    \cup {Response(200, "object", None, s, None, None, None) :
        s \in StatusValues \ Terminal}
    \cup {Response(200, "object", None, s, o, e, None) :
        s \in StatusValues \ Terminal, o \in OutputIds, e \in ErrorIds}
    \cup {Response(200, b, None, None, None, None, None) : b \in {"invalid", "other"}}
    \cup {Response(500, "object", None, "completed", o, e, None) :
        o \in OutputIds, e \in ErrorIds}
    \cup {Response(500, "invalid", None, None, None, None, None)}

\* GET of a file's metadata or content: only the status code is read.
GetResponses == {Response(c, "invalid", None, None, None, None, None) : c \in {200, 500}}

\* POST {API_KEY_ENDPOINT}
KeyResponses ==
    {Response(c, "object", None, None, None, None, k) :
        c \in StatusCodes, k \in Keys \cup {None, ""}}
    \cup {Response(c, b, None, None, None, None, None) :
        c \in {200, 500}, b \in {"invalid", "other"}}

\* An HTTP request: its locust name, the identifier in its path or payload,
\* and the credential the client attaches.
Request(name, id, cred) == [name |-> name, id |-> id, cred |-> cred]

NoRequest == Request("none", None, "none")

\* The name= argument of each request, under which locust records it.
UploadName == "/ai/v1/files [upload]"

MetadataName == "/ai/v1/files/{file_id} [metadata]"

VerifyName == "/ai/v1/files/{file_id}/content [verify]"

CreateName == "/ai/v1/batches [create]"

PollName == "/ai/v1/batches/{batch_id} [poll]"

OutputName == "/ai/v1/files/{output_file_id}/content [output]"

ErrorsName == "/ai/v1/files/{error_file_id}/content [errors]"

KeyName == "/admin/api-keys [create-shared]"

-----------------------------------------------------------------------------
VARIABLES
    shared_api_key,   \* BatchUser.shared_api_key (class attribute)
    created,          \* number of key creation requests issued so far
    upc,              \* per user: "off", "new", "creating", "ready", "running", "stopped"
    auth,             \* per user: client.auth is the basic-auth pair
    bearer,           \* per user: the token of the Authorization header, or None
    pc,               \* per user: the task of BatchWorkflow that runs next
    file_id, batch_id, output_file_id, error_file_id,   \* per user workflow state
    i,                \* per user: index of the poll loop
    poll_interval,    \* per user: the sleep interval, in 1/64 s
    nonterm,          \* per user: non-terminal responses the poll step received
    sleeps,           \* per user: sleeps done by the poll step
    last_sleep,       \* per user: the length of the last sleep, in 1/64 s
    reqs,             \* per user: requests issued by the task that ran last
    req,              \* per user: the last request issued
    resp,             \* per user: the last response received
    mark,             \* per user: what the task that ran last recorded
    stop              \* the test_stop handler: what it did and reported

authVars == <<shared_api_key, created, upc, auth, bearer>>

idVars == <<file_id, batch_id, output_file_id, error_file_id>>

pollVars == <<i, poll_interval, nonterm, sleeps, last_sleep>>

obsVars == <<reqs, req, resp, mark>>

vars == <<shared_api_key, created, upc, auth, bearer, pc, file_id, batch_id,
          output_file_id, error_file_id, i, poll_interval, nonterm, sleeps,
          last_sleep, reqs, req, resp, mark, stop>>

\* The credential a request of user u carries: requests lets session.auth
\* override the Authorization header.
Cred(u) == IF auth[u] THEN "basic"
           ELSE IF bearer[u] /= None THEN bearer[u] ELSE "none"

-----------------------------------------------------------------------------
(* BatchUser: authentication set-up (lines 246-320).                       *)

TypeOK ==
    /\ shared_api_key \in Keys \cup {None, ""}
    /\ created \in 0..NumUsers
    /\ upc \in [Users -> {"off", "new", "creating", "ready", "running", "stopped"}]
    /\ auth \in [Users -> BOOLEAN]
    /\ bearer \in [Users -> Keys \cup {None, ""}]
    /\ pc \in [Users -> {"none", "upload_file", "verify_upload", "create_batch",
                         "poll_batch_status", "polling", "poll_sleep",
                         "retrieve_output", "retrieve_errors"}]
    /\ file_id \in [Users -> FileIds \cup {None, ""}]
    /\ batch_id \in [Users -> BatchIds \cup {None, ""}]
    /\ output_file_id \in [Users -> OutputIds \cup {None}]
    /\ error_file_id \in [Users -> ErrorIds \cup {None}]
    /\ mark \in [Users -> {"none", "success", "failure", "error"}]

\* The test_stop handler has not run: nothing exported, checked or reported,
\* and environment.process_exit_code as locust creates it.
NotStopped ==
    [phase |-> "running", exported |-> FALSE, checked |-> FALSE,
     p95 |-> 0, p95_threshold_ms |-> 0,
     error_rate |-> 0, error_rate_threshold |-> 0,
     failures |-> {}, report |-> "none", process_exit_code |-> None]

\* State after the classes are defined and before any user has started; the
\* users in `spawned` are the ones the engine starts.
InitWith(spawned) ==
    /\ shared_api_key = None
    /\ created = 0
    /\ upc = [u \in Users |-> IF u \in spawned THEN "new" ELSE "off"]
    /\ auth = [u \in Users |-> FALSE]
    /\ bearer = [u \in Users |-> None]
    /\ pc = [u \in Users |-> "none"]
    /\ file_id = [u \in Users |-> None]
    /\ batch_id = [u \in Users |-> None]
    /\ output_file_id = [u \in Users |-> None]
    /\ error_file_id = [u \in Users |-> None]
    /\ i = [u \in Users |-> 0]
    /\ poll_interval = [u \in Users |-> 0]
    /\ nonterm = [u \in Users |-> 0]
    /\ sleeps = [u \in Users |-> 0]
    /\ last_sleep = [u \in Users |-> 0]
    /\ reqs = [u \in Users |-> 0]
    /\ req = [u \in Users |-> NoRequest]
    /\ resp = [u \in Users |-> NoResponse]
    /\ mark = [u \in Users |-> "none"]
    /\ stop = NotStopped

\* on_start leaving the basic credentials in place next to the bearer header.
BatchUser_on_start_keeps_basic(u) ==
    /\ upc[u] = "new"
    /\ auth' = [auth EXCEPT ![u] = TRUE]
    /\ IF shared_api_key = None
       THEN /\ created' = created + 1
            /\ req' = [req EXCEPT ![u] =
                         Request(KeyName, None, "basic")]
            /\ reqs' = [reqs EXCEPT ![u] = 1]
            /\ upc' = [upc EXCEPT ![u] = "creating"]
            /\ UNCHANGED bearer
       ELSE /\ bearer' = [bearer EXCEPT ![u] = shared_api_key]
            /\ upc' = [upc EXCEPT ![u] = "ready"]
            /\ UNCHANGED <<created, req, reqs>>
    /\ UNCHANGED <<shared_api_key, pc, idVars, pollVars, resp, mark>>
    /\ UNCHANGED stop

\* BatchUser.on_start up to its first HTTP call: basic auth is set; with no
\* shared key the creation POST is sent, otherwise the key becomes the bearer
\* token and on_start returns.
BatchUser_on_start(u) ==
    /\ upc[u] = "new"
    /\ IF shared_api_key = None
       THEN /\ auth' = [auth EXCEPT ![u] = TRUE]
            /\ created' = created + 1
            /\ req' = [req EXCEPT ![u] =
                         Request(KeyName, None, "basic")]
            /\ reqs' = [reqs EXCEPT ![u] = 1]
            /\ upc' = [upc EXCEPT ![u] = "creating"]
            /\ UNCHANGED bearer
       ELSE /\ bearer' = [bearer EXCEPT ![u] = shared_api_key]
            /\ auth' = [auth EXCEPT ![u] = FALSE]
            /\ upc' = [upc EXCEPT ![u] = "ready"]
            /\ UNCHANGED <<created, req, reqs>>
    /\ UNCHANGED <<shared_api_key, pc, idVars, pollVars, resp, mark>>
    /\ UNCHANGED stop

\* _create_shared_api_key from the arrival of the POST's response (line 303).
create_shared_api_key(u) ==
    /\ upc[u] = "creating"
    /\ \E r \in KeyResponses :
         /\ resp' = [resp EXCEPT ![u] = r]
         /\ IF r.status_code \in {200, 201} /\ r.body = "object"
            THEN /\ shared_api_key' = r.key
                 /\ IF Truthy(r.key)
                    THEN /\ bearer' = [bearer EXCEPT ![u] = r.key]
                         /\ auth' = [auth EXCEPT ![u] = FALSE]
                    ELSE UNCHANGED <<bearer, auth>>
            ELSE UNCHANGED <<shared_api_key, bearer, auth>>
         \* AttributeError leaves on_start: the engine ends this user.
         /\ upc' = [upc EXCEPT ![u] =
                      IF r.status_code \in {200, 201} /\ r.body = "other"
                      THEN "stopped" ELSE "ready"]
    /\ UNCHANGED <<created, pc, idVars, pollVars, reqs, req, mark>>
    /\ UNCHANGED stop

-----------------------------------------------------------------------------
(* BatchWorkflow (lines 24-243), a SequentialTaskSet: its tasks run in the  *)
(* order they are declared, and after the last one the first runs again on *)
(* the same instance.                                                      *)

\* What every task records when it ran without the poll loop.
NoPoll(u) ==
    /\ i' = [i EXCEPT ![u] = 0]
    /\ poll_interval' = [poll_interval EXCEPT ![u] = 0]
    /\ nonterm' = [nonterm EXCEPT ![u] = 0]
    /\ sleeps' = [sleeps EXCEPT ![u] = 0]
    /\ last_sleep' = [last_sleep EXCEPT ![u] = 0]

\* A task that sends one request and gets response r, recording m.
OneRequest(u, name, id, r, m) ==
    /\ req' = [req EXCEPT ![u] = Request(name, id, Cred(u))]
    /\ reqs' = [reqs EXCEPT ![u] = 1]
    /\ resp' = [resp EXCEPT ![u] = r]
    /\ mark' = [mark EXCEPT ![u] = m]

\* A task that returns without sending anything.
NoRequests(u) ==
    /\ reqs' = [reqs EXCEPT ![u] = 0]
    /\ mark' = [mark EXCEPT ![u] = "none"]
    /\ UNCHANGED <<req, resp>>

\* self.interrupt(): the task set ends, and the user, whose only task is
\* BatchWorkflow, starts a new instance of it.
interrupt(u) ==
    /\ upc' = [upc EXCEPT ![u] = "ready"]
    /\ pc' = [pc EXCEPT ![u] = "none"]
    /\ NoRequests(u)

\* on_start with the four identifiers kept on the class, as shared_api_key
\* is, so that one user's restart clears them for every user.
BatchWorkflow_on_start_class_state(u) ==
    /\ upc[u] = "ready"
    /\ file_id' = [v \in Users |-> None]
    /\ batch_id' = [v \in Users |-> None]
    /\ output_file_id' = [v \in Users |-> None]
    /\ error_file_id' = [v \in Users |-> None]
    /\ upc' = [upc EXCEPT ![u] = "running"]
    /\ pc' = [pc EXCEPT ![u] = "upload_file"]
    /\ UNCHANGED <<shared_api_key, created, auth, bearer, pollVars, obsVars>>
    /\ UNCHANGED stop

\* BatchWorkflow.on_start: runs once for each new instance of the task set.
BatchWorkflow_on_start(u) ==
    /\ upc[u] = "ready"
    /\ file_id' = [file_id EXCEPT ![u] = None]
    /\ batch_id' = [batch_id EXCEPT ![u] = None]
    /\ output_file_id' = [output_file_id EXCEPT ![u] = None]
    /\ error_file_id' = [error_file_id EXCEPT ![u] = None]
    /\ upc' = [upc EXCEPT ![u] = "running"]
    /\ pc' = [pc EXCEPT ![u] = "upload_file"]
    /\ UNCHANGED <<shared_api_key, created, auth, bearer, pollVars, obsVars>>
    /\ UNCHANGED stop

\* What upload_file records for response r (lines 87-98).
upload_mark(r) ==
    IF r.status_code \in {200, 201}
    THEN CASE r.body = "object" -> IF Truthy(r.id) THEN "success" ELSE "failure"
           [] r.body = "invalid" -> "failure"
           [] OTHER -> "error"
    ELSE "failure"

\* upload_file run again after a failure instead of going on to the next task.
upload_file_retry(u) ==
    /\ upc[u] = "running" /\ pc[u] = "upload_file"
    /\ \E r \in IdResponses(FileIds) :
         /\ OneRequest(u, UploadName, None, r, upload_mark(r))
         /\ file_id' = [file_id EXCEPT ![u] =
                          IF r.status_code \in {200, 201} /\ r.body = "object"
                          THEN r.id ELSE @]
         /\ pc' = [pc EXCEPT ![u] =
                     IF upload_mark(r) = "failure" THEN @ ELSE "verify_upload"]
    /\ NoPoll(u)
    /\ UNCHANGED <<authVars, batch_id, output_file_id, error_file_id>>
    /\ UNCHANGED stop

\* upload_file reading the id of the body before it looks at the status.
upload_file_id_first(u) ==
    /\ upc[u] = "running" /\ pc[u] = "upload_file"
    /\ \E r \in IdResponses(FileIds) :
         /\ OneRequest(u, UploadName, None, r, upload_mark(r))
         /\ file_id' = [file_id EXCEPT ![u] = IF r.body = "object" THEN r.id ELSE @]
    /\ pc' = [pc EXCEPT ![u] = "verify_upload"]
    /\ NoPoll(u)
    /\ UNCHANGED <<authVars, batch_id, output_file_id, error_file_id>>
    /\ UNCHANGED stop

upload_file(u) ==
    /\ upc[u] = "running" /\ pc[u] = "upload_file"
    /\ \E r \in IdResponses(FileIds) :
         /\ OneRequest(u, UploadName, None, r, upload_mark(r))
         /\ file_id' = [file_id EXCEPT ![u] =
                          IF r.status_code \in {200, 201} /\ r.body = "object"
                          THEN r.id ELSE @]
    /\ pc' = [pc EXCEPT ![u] = "verify_upload"]
    /\ NoPoll(u)
    /\ UNCHANGED <<authVars, batch_id, output_file_id, error_file_id>>
    /\ UNCHANGED stop

\* A GET whose outcome is decided by the status code alone.
get_mark(r) == IF r.status_code = 200 THEN "success" ELSE "failure"

\* verify_upload without its guard on file_id.
verify_upload_unguarded(u) ==
    /\ upc[u] = "running" /\ pc[u] = "verify_upload"
    /\ \E name \in {MetadataName, VerifyName}, r \in GetResponses :
         OneRequest(u, name, file_id[u], r, get_mark(r))
    /\ pc' = [pc EXCEPT ![u] = "create_batch"]
    /\ NoPoll(u)
    /\ UNCHANGED <<authVars, idVars>>
    /\ UNCHANGED stop

verify_upload(u) ==
    /\ upc[u] = "running" /\ pc[u] = "verify_upload"
    /\ IF ~Truthy(file_id[u])
       THEN /\ interrupt(u)
            /\ UNCHANGED <<shared_api_key, created, auth, bearer>>
       ELSE /\ \E name \in {MetadataName,
                            VerifyName},
                  r \in GetResponses :
                    OneRequest(u, name, file_id[u], r, get_mark(r))
            /\ pc' = [pc EXCEPT ![u] = "create_batch"]
            /\ UNCHANGED authVars
    /\ NoPoll(u)
    /\ UNCHANGED idVars
    /\ UNCHANGED stop

\* What create_batch records for response r (lines 154-162).
create_mark(r) ==
    IF r.status_code \in {200, 201}
    THEN CASE r.body = "object" -> "success"
           [] r.body = "invalid" -> "failure"
           [] OTHER -> "error"
    ELSE "failure"

create_batch(u) ==
    /\ upc[u] = "running" /\ pc[u] = "create_batch"
    /\ IF ~Truthy(file_id[u])
       THEN /\ interrupt(u)
            /\ UNCHANGED <<shared_api_key, created, auth, bearer, batch_id>>
       ELSE /\ \E r \in IdResponses(BatchIds) :
                 /\ OneRequest(u, CreateName, file_id[u], r,
                               create_mark(r))
                 /\ batch_id' = [batch_id EXCEPT ![u] =
                                   IF r.status_code \in {200, 201} /\ r.body = "object"
                                   THEN r.id ELSE @]
            /\ pc' = [pc EXCEPT ![u] = "poll_batch_status"]
            /\ UNCHANGED authVars
    /\ NoPoll(u)
    /\ UNCHANGED <<file_id, output_file_id, error_file_id>>
    /\ UNCHANGED stop

\* Maximum number of polls (line 171).
max_polls == 60

\* Seconds as the unit of the intervals: 1/64 s, in which every value the
\* loop computes (2, 3, 4.5, 6.75, 10.125, 15.1875, 22.78125, 30) is a whole
\* number, as it is an exact binary float in the code.
Ticks(seconds) == seconds * 64

Min(a, b) == IF a <= b THEN a ELSE b

\* The backoff with factor 2 in place of 1.5.
next_interval_doubling(x) == Min(x * 2, Ticks(30))

\* poll_interval = min(poll_interval * 1.5, 30) (line 206).
next_interval(x) == Min((x * 3) \div 2, Ticks(30))

\* poll_batch_status up to the head of its loop (lines 167-172).
poll_batch_status(u) ==
    /\ upc[u] = "running" /\ pc[u] = "poll_batch_status"
    /\ IF ~Truthy(batch_id[u])
       THEN /\ interrupt(u)
            /\ NoPoll(u)
            /\ UNCHANGED <<shared_api_key, created, auth, bearer>>
       ELSE /\ i' = [i EXCEPT ![u] = 0]
            /\ poll_interval' = [poll_interval EXCEPT ![u] = Ticks(2)]
            /\ nonterm' = [nonterm EXCEPT ![u] = 0]
            /\ sleeps' = [sleeps EXCEPT ![u] = 0]
            /\ last_sleep' = [last_sleep EXCEPT ![u] = 0]
            /\ pc' = [pc EXCEPT ![u] = "polling"]
            /\ NoRequests(u)
            /\ UNCHANGED authVars
    /\ UNCHANGED idVars
    /\ UNCHANGED stop

\* The response handling that polls on when the status is not a known one.
poll_outcome_unknown_pending(r) ==
    IF r.status_code = 200
    THEN CASE r.body = "invalid" -> "stop"
           [] r.body = "other" -> "raise"
           [] r.status \in Terminal -> "finished"
           [] OTHER -> "continue"
    ELSE "stop"

\* The response handling with "expired" listed among the statuses still
\* processing.
poll_outcome_expired_pending(r) ==
    IF r.status_code = 200
    THEN CASE r.body = "invalid" -> "stop"
           [] r.body = "other" -> "raise"
           [] r.status \in Terminal \ {"expired"} -> "finished"
           [] r.status \in NonTerminal \cup {"expired"} -> "continue"
           [] OTHER -> "stop"
    ELSE "stop"

\* How one pass of the loop body ends for response r (lines 180-202):
\* "finished" and "stop" return, "raise" leaves the task by AttributeError,
\* "continue" goes on to the sleep.
poll_outcome(r) ==
    IF r.status_code = 200
    THEN CASE r.body = "invalid" -> "stop"
           [] r.body = "other" -> "raise"
           [] r.status \in Terminal -> "finished"
           [] r.status \in NonTerminal -> "continue"
           [] OTHER -> "stop"
    ELSE "stop"

\* What the pass records for response r.
poll_mark(r) ==
    CASE poll_outcome(r) \in {"finished", "continue"} -> "success"
      [] poll_outcome(r) = "raise" -> "error"
      [] OTHER -> "failure"

\* One pass of the loop body: the GET and the handling of its response
\* (lines 175-202).
poll_attempt(u) ==
    /\ upc[u] = "running" /\ pc[u] = "polling"
    /\ \E r \in PollResponses :
         /\ req' = [req EXCEPT ![u] =
                      Request(PollName, batch_id[u], Cred(u))]
         /\ reqs' = [reqs EXCEPT ![u] = @ + 1]
         /\ resp' = [resp EXCEPT ![u] = r]
         /\ mark' = [mark EXCEPT ![u] = poll_mark(r)]
         /\ IF poll_outcome(r) = "finished"
            THEN /\ output_file_id' = [output_file_id EXCEPT ![u] = r.output_file_id]
                 /\ error_file_id' = [error_file_id EXCEPT ![u] = r.error_file_id]
            ELSE UNCHANGED <<output_file_id, error_file_id>>
         /\ nonterm' = [nonterm EXCEPT ![u] =
                          IF poll_outcome(r) = "continue" THEN @ + 1 ELSE @]
         /\ pc' = [pc EXCEPT ![u] =
                     IF poll_outcome(r) = "continue" THEN "poll_sleep"
                     ELSE "retrieve_output"]
    /\ UNCHANGED <<authVars, file_id, batch_id, i, poll_interval, sleeps, last_sleep>>
    /\ UNCHANGED stop

\* The loop leaving before the sleep of its last pass.
poll_sleep_skips_last(u) ==
    /\ upc[u] = "running" /\ pc[u] = "poll_sleep"
    /\ IF i[u] + 1 < max_polls
       THEN /\ last_sleep' = [last_sleep EXCEPT ![u] = poll_interval[u]]
            /\ sleeps' = [sleeps EXCEPT ![u] = @ + 1]
            /\ poll_interval' = [poll_interval EXCEPT ![u] = next_interval(@)]
       ELSE UNCHANGED <<last_sleep, sleeps, poll_interval>>
    /\ i' = [i EXCEPT ![u] = @ + 1]
    /\ pc' = [pc EXCEPT ![u] =
                IF i[u] + 1 < max_polls THEN "polling" ELSE "retrieve_output"]
    /\ UNCHANGED <<authVars, idVars, nonterm, obsVars>>
    /\ UNCHANGED stop

\* The loop running one pass too many (range(max_polls + 1)).
poll_sleep_one_more(u) ==
    /\ upc[u] = "running" /\ pc[u] = "poll_sleep"
    /\ last_sleep' = [last_sleep EXCEPT ![u] = poll_interval[u]]
    /\ sleeps' = [sleeps EXCEPT ![u] = @ + 1]
    /\ poll_interval' = [poll_interval EXCEPT ![u] = next_interval(@)]
    /\ i' = [i EXCEPT ![u] = @ + 1]
    /\ pc' = [pc EXCEPT ![u] =
                IF i[u] + 1 < max_polls + 1 THEN "polling" ELSE "retrieve_output"]
    /\ UNCHANGED <<authVars, idVars, nonterm, obsVars>>
    /\ UNCHANGED stop

\* The end of a pass that goes on: the sleep, the backoff and the loop's
\* next index (lines 174 and 204-209).
poll_sleep(u) ==
    /\ upc[u] = "running" /\ pc[u] = "poll_sleep"
    /\ last_sleep' = [last_sleep EXCEPT ![u] = poll_interval[u]]
    /\ sleeps' = [sleeps EXCEPT ![u] = @ + 1]
    /\ poll_interval' = [poll_interval EXCEPT ![u] = next_interval(@)]
    /\ i' = [i EXCEPT ![u] = @ + 1]
    /\ pc' = [pc EXCEPT ![u] =
                IF i[u] + 1 < max_polls THEN "polling" ELSE "retrieve_output"]
    /\ UNCHANGED <<authVars, idVars, nonterm, obsVars>>
    /\ UNCHANGED stop

\* retrieve_output without its guard on output_file_id.
retrieve_output_unguarded(u) ==
    /\ upc[u] = "running" /\ pc[u] = "retrieve_output"
    /\ \E r \in GetResponses :
         OneRequest(u, OutputName, output_file_id[u], r, get_mark(r))
    /\ pc' = [pc EXCEPT ![u] = "retrieve_errors"]
    /\ NoPoll(u)
    /\ UNCHANGED <<authVars, idVars>>
    /\ UNCHANGED stop

retrieve_output(u) ==
    /\ upc[u] = "running" /\ pc[u] = "retrieve_output"
    /\ IF ~Truthy(output_file_id[u])
       THEN NoRequests(u)
       ELSE \E r \in GetResponses :
              OneRequest(u, OutputName,
                         output_file_id[u], r, get_mark(r))
    /\ pc' = [pc EXCEPT ![u] = "retrieve_errors"]
    /\ NoPoll(u)
    /\ UNCHANGED <<authVars, idVars>>
    /\ UNCHANGED stop

retrieve_errors(u) ==
    /\ upc[u] = "running" /\ pc[u] = "retrieve_errors"
    /\ IF ~Truthy(error_file_id[u])
       THEN NoRequests(u)
       ELSE \E r \in GetResponses :
              OneRequest(u, ErrorsName,
                         error_file_id[u], r, get_mark(r))
    /\ pc' = [pc EXCEPT ![u] = "upload_file"]
    /\ NoPoll(u)
    /\ UNCHANGED <<authVars, idVars>>
    /\ UNCHANGED stop

-----------------------------------------------------------------------------
(* One simulated user: its authentication set-up, then its workflow.       *)

Init == InitWith({1})

Next ==
    \E u \in Users :
        \/ BatchUser_on_start(u)
        \/ create_shared_api_key(u)
        \/ BatchWorkflow_on_start(u)
        \/ upload_file(u)
        \/ verify_upload(u)
        \/ create_batch(u)
        \/ poll_batch_status(u)
        \/ poll_attempt(u)
        \/ poll_sleep(u)
        \/ retrieve_output(u)
        \/ retrieve_errors(u)

Spec == Init /\ [][Next]_vars

\* The engine resumes a greenlet whose HTTP call or sleep has ended.
FairSpec == Spec /\ WF_vars(Next)

-----------------------------------------------------------------------------
(* Two users running their workflows concurrently: the greenlets of the    *)
(* two users interleave at every HTTP call and every sleep.                *)

\* The state once user 1 has created the key sk-1 (201) and user 2, started
\* after that, has taken it over (a state SpecAuth reaches); the other users
\* are not spawned.
InitPair ==
    /\ shared_api_key = "sk-1"
    /\ created = 1
    /\ upc = [u \in Users |-> IF u \in {1, 2} THEN "ready" ELSE "off"]
    /\ auth = [u \in Users |-> FALSE]
    /\ bearer = [u \in Users |-> IF u \in {1, 2} THEN "sk-1" ELSE None]
    /\ pc = [u \in Users |-> "none"]
    /\ file_id = [u \in Users |-> None]
    /\ batch_id = [u \in Users |-> None]
    /\ output_file_id = [u \in Users |-> None]
    /\ error_file_id = [u \in Users |-> None]
    /\ i = [u \in Users |-> 0]
    /\ poll_interval = [u \in Users |-> 0]
    /\ nonterm = [u \in Users |-> 0]
    /\ sleeps = [u \in Users |-> 0]
    /\ last_sleep = [u \in Users |-> 0]
    /\ reqs = [u \in Users |-> IF u = 1 THEN 1 ELSE 0]
    /\ req = [u \in Users |->
                IF u = 1 THEN Request(KeyName, None, "basic") ELSE NoRequest]
    /\ resp = [u \in Users |->
                IF u = 1
                THEN Response(201, "object", None, None, None, None, "sk-1")
                ELSE NoResponse]
    /\ mark = [u \in Users |-> "none"]
    /\ stop = NotStopped

\* The runs looked at: the server answers a poll step with a non-terminal
\* status at most MaxPending times, and the test is stopped before a user
\* that holds a file id from a finished pass uploads again.
InPair(u) ==
    /\ nonterm'[u] <= MaxPending
    /\ pc[u] = "upload_file" => file_id[u] = None

NextPair ==
    \E u \in Users :
        \/ BatchWorkflow_on_start(u) /\ InPair(u)
        \/ upload_file(u) /\ InPair(u)
        \/ verify_upload(u) /\ InPair(u)
        \/ create_batch(u) /\ InPair(u)
        \/ poll_batch_status(u) /\ InPair(u)
        \/ poll_attempt(u) /\ InPair(u)
        \/ poll_sleep(u) /\ InPair(u)
        \/ retrieve_output(u) /\ InPair(u)
        \/ retrieve_errors(u) /\ InPair(u)

SpecPair == InitPair /\ [][NextPair]_vars

-----------------------------------------------------------------------------
(* Several simulated users started together: the key bootstrap, and the    *)
(* credential each user's workflow then sends.                             *)

\* A request of any task of BatchWorkflow, all of which go through
\* self.client: it carries the credential on_start left on the client.
workflow_request(u) ==
    /\ upc[u] = "ready"
    /\ req' = [req EXCEPT ![u] = Request("workflow", None, Cred(u))]
    /\ reqs' = [reqs EXCEPT ![u] = 1]
    /\ UNCHANGED <<authVars, pc, idVars, pollVars, resp, mark>>
    /\ UNCHANGED stop

InitAuth == InitWith(Users)

NextAuth ==
    \E u \in Users :
        \/ BatchUser_on_start(u)
        \/ create_shared_api_key(u)
        \/ workflow_request(u)

SpecAuth == InitAuth /\ [][NextAuth]_vars

-----------------------------------------------------------------------------
(* on_test_stop (lines 333-414): the listener of the test_stop event.      *)

\* stats.total.get_response_time_percentile(0.95), in ms.
P95Values == {0, 999, 1000, 1001}

\* float(os.getenv('P95_THRESHOLD_MS', '1000')).
P95Thresholds == {500, 1000}

\* stats.total.fail_ratio, in thousandths.
ErrorRates == {0, 9, 10, 11}

\* float(os.getenv('ERROR_RATE_THRESHOLD', '0.01')), in thousandths.
ErrorRateThresholds == {10, 50}

\* The list `failures` of lines 393-401.
performance_failures(p95, p95_threshold_ms, error_rate, error_rate_threshold) ==
    (IF p95 > p95_threshold_ms THEN {"p95"} ELSE {})
    \cup (IF error_rate > error_rate_threshold THEN {"error_rate"} ELSE {})

\* The banner printed for the list `failures` (lines 403-414).
performance_report(failures) ==
    IF failures /= {} THEN "PERFORMANCE ASSERTION FAILURES"
    ELSE "ALL PERFORMANCE ASSERTIONS PASSED"

\* The handler with the assertions inside the try block of the export, so
\* that a failed export skips them.
on_test_stop_check_in_try ==
    /\ stop.phase = "running"
    /\ \E exported \in BOOLEAN, p95 \in P95Values, pt \in P95Thresholds,
          error_rate \in ErrorRates, et \in ErrorRateThresholds :
         LET failures == IF exported
                         THEN performance_failures(p95, pt, error_rate, et)
                         ELSE {}
         IN stop' = [phase |-> "stopped", exported |-> exported,
                     checked |-> exported,
                     p95 |-> p95, p95_threshold_ms |-> pt,
                     error_rate |-> error_rate, error_rate_threshold |-> et,
                     failures |-> failures,
                     report |-> IF exported THEN performance_report(failures)
                                ELSE "none",
                     process_exit_code |-> stop.process_exit_code]
    /\ UNCHANGED <<authVars, pc, idVars, pollVars, obsVars>>

\* on_test_stop: prints the summary, tries to export the metrics (any
\* Exception of the export is caught and printed), then compares the two
\* statistics with their thresholds and prints the result; it neither
\* assigns environment.process_exit_code nor exits.
on_test_stop ==
    /\ stop.phase = "running"
    /\ \E exported \in BOOLEAN, p95 \in P95Values, pt \in P95Thresholds,
          error_rate \in ErrorRates, et \in ErrorRateThresholds :
         LET failures == performance_failures(p95, pt, error_rate, et)
         IN stop' = [phase |-> "stopped", exported |-> exported,
                     checked |-> TRUE,
                     p95 |-> p95, p95_threshold_ms |-> pt,
                     error_rate |-> error_rate, error_rate_threshold |-> et,
                     failures |-> failures,
                     report |-> performance_report(failures),
                     process_exit_code |-> stop.process_exit_code]
    /\ UNCHANGED <<authVars, pc, idVars, pollVars, obsVars>>

NextStop == on_test_stop

SpecStop == Init /\ [][NextStop]_vars

-----------------------------------------------------------------------------
(* The shared API key.                                                     *)

\* C1: whatever the number of users and the interleaving of their on_start
\* calls, at most one key creation request is issued during a run.
C1_AtMostOneCreation == created <= 1

\* C2: once shared_api_key holds a token it never changes again, neither to
\* another token nor back to unset, and every user whose on_start runs
\* afterwards takes that token as its bearer credential.
C2_KeyNeverChanges ==
    [][Truthy(shared_api_key) =>
         /\ shared_api_key' = shared_api_key
         /\ \A u \in Users :
              upc[u] = "new" /\ upc'[u] /= "new" =>
                  ~auth'[u] /\ bearer'[u] = shared_api_key]_vars

\* C3: in a state in which the shared key is set no user sends a workflow
\* request with basic auth: every workflow request then carries the shared
\* key as its bearer credential, also a user's whose own creation failed.
C3_NoBasicAuthOnceKeyExists ==
    [][\A u \in Users :
         Truthy(shared_api_key) /\ upc[u] = "ready" /\ req'[u] /= req[u] =>
             req'[u].cred = shared_api_key]_vars

-----------------------------------------------------------------------------
(* The workflow of one user.                                               *)

\* C4: the four identifiers are cleared at every workflow restart: whenever
\* an iteration starts (upload_file is the next task), also after a previous
\* iteration that ran to its end, all four are unset.
C4_IdsClearedAtRestart ==
    \A u \in Users :
        upc[u] = "running" /\ pc[u] = "upload_file" =>
            /\ file_id[u] = None
            /\ batch_id[u] = None
            /\ output_file_id[u] = None
            /\ error_file_id[u] = None

\* A task of user u has just aborted the workflow: it sent nothing, recorded
\* nothing, and the task set has ended, so that none of its remaining tasks
\* runs; the user goes on with a new instance, from BatchWorkflow.on_start.
Aborts(u) ==
    /\ reqs'[u] = 0
    /\ req'[u] = req[u]
    /\ mark'[u] = "none"
    /\ upc'[u] = "ready"
    /\ pc'[u] = "none"

\* C5: no later step runs with an unset predecessor identifier: verify_upload
\* and create_batch send nothing when file_id is unset, poll_batch_status
\* sends nothing when batch_id is unset, and each then aborts the workflow
\* without recording a failure; hence every request of these three steps
\* carries a set identifier.
C5_AbortOnUnsetPredecessor ==
    /\ [](\A u \in Users :
            req[u].name \in {MetadataName, VerifyName, CreateName, PollName} =>
                Truthy(req[u].id))
    /\ [](\A u \in Users : upc[u] = "ready" => pc[u] = "none")
    /\ [][\A u \in Users :
            /\ pc[u] \in {"verify_upload", "create_batch"} /\ pc'[u] /= pc[u]
               /\ ~Truthy(file_id[u]) => Aborts(u)
            /\ pc[u] = "poll_batch_status" /\ pc'[u] /= pc[u]
               /\ ~Truthy(batch_id[u]) => Aborts(u)]_vars

\* verify_upload has aborted after a failed upload.
C5_Witness ==
    /\ upc[1] = "ready" /\ pc[1] = "none"
    /\ req[1].name = UploadName /\ resp[1].status_code = 500
    /\ file_id[1] = None /\ reqs[1] = 0 /\ mark[1] = "none"

\* The last response of user u is a 200 whose body is an object with a
\* status among `statuses`.
Polled(u, statuses) ==
    /\ req[u].name = PollName
    /\ resp[u].status_code = 200
    /\ resp[u].body = "object"
    /\ resp[u].status \in statuses

\* C6: after k < 60 non-terminal responses and then a terminal one, the poll
\* step has sent exactly k + 1 requests, sends none after the terminal
\* response, and output_file_id and error_file_id hold the values of that
\* response; the loop is still polling after any k < 60 non-terminal ones.
C6_TerminalEndsPolling ==
    /\ [](\A u \in Users :
            Polled(u, Terminal) =>
                /\ pc[u] \notin {"polling", "poll_sleep"}
                /\ pc[u] = "retrieve_output" =>
                     /\ nonterm[u] < max_polls
                     /\ reqs[u] = nonterm[u] + 1
                     /\ output_file_id[u] = resp[u].output_file_id
                     /\ error_file_id[u] = resp[u].error_file_id)
    /\ [][\A u \in Users :
            pc[u] = "poll_sleep" /\ pc'[u] /= pc[u] /\ nonterm[u] < max_polls =>
                pc'[u] = "polling" /\ reqs'[u] = nonterm[u]]_vars

\* [in_progress, in_progress, completed] with output_file_id "file-out-1".
C6_Witness ==
    /\ pc[1] = "retrieve_output"
    /\ Polled(1, {"completed"})
    /\ nonterm[1] = 2 /\ reqs[1] = 3
    /\ resp[1].output_file_id = "file-out-1"
    /\ output_file_id[1] = "file-out-1"

\* min(2 * 1.5^n, 30) seconds in ticks: 2 * 1.5^n, a whole number of ticks for
\* n <= 7, is above 30 from n = 7 on.
Backoff(n) == IF n > 7 THEN Ticks(30) ELSE Min((Ticks(2) * 3^n) \div 2^n, Ticks(30))

\* C7: while the status is validating, in_progress or finalizing polling goes
\* on, and the sleep after attempt n (from 0) lasts min(2 * 1.5^n, 30) s: it
\* starts at 2 s, never decreases and never exceeds 30 s.
C7_BackoffSchedule ==
    /\ [](\A u \in Users :
            /\ Polled(u, NonTerminal) /\ pc[u] = "retrieve_output" =>
                 nonterm[u] = max_polls
            /\ pc[u] = "poll_sleep" =>
                 /\ Polled(u, NonTerminal)
                 /\ poll_interval[u] = Backoff(i[u])
                 /\ nonterm[u] = i[u] + 1
            /\ sleeps[u] > 0 =>
                 /\ last_sleep[u] = Backoff(sleeps[u] - 1)
                 /\ last_sleep[u] >= Ticks(2)
                 /\ last_sleep[u] <= Ticks(30))
    /\ [][\A u \in Users :
            /\ pc[u] = "poll_sleep" /\ pc'[u] /= pc[u] =>
                 /\ sleeps'[u] = i[u] + 1
                 /\ last_sleep'[u] = Backoff(i[u])
                 /\ last_sleep'[u] >= last_sleep[u]
            /\ pc[u] = "polling" /\ pc'[u] /= pc[u] /\ Polled(u, NonTerminal)'
                 => pc'[u] = "poll_sleep"]_vars

\* The seventh sleep lasted 22.78125 s and the eighth the capped 30 s.
C7_Witness ==
    /\ pc[1] = "polling" /\ sleeps[1] = 8
    /\ last_sleep[1] = Ticks(30)
    /\ poll_interval[1] = Ticks(30)

\* C8: the poll step ends after at most 60 requests whatever the server
\* answers; after 60 non-terminal responses it ends with no failure recorded
\* and output_file_id and error_file_id as they were, and the workflow goes
\* on to retrieve_output instead of aborting.
C8_PollBudget ==
    /\ [](\A u \in Users :
            /\ pc[u] \in {"polling", "poll_sleep"} => reqs[u] <= max_polls
            /\ pc[u] = "polling" => reqs[u] < max_polls
            /\ req[u].name = PollName => reqs[u] <= max_polls)
    /\ [][\A u \in Users :
            /\ pc[u] = "polling" /\ pc'[u] /= pc[u] => reqs'[u] = reqs[u] + 1
            /\ pc[u] = "polling" /\ pc'[u] = "poll_sleep" =>
                 /\ mark'[u] = "success"
                 /\ output_file_id'[u] = output_file_id[u]
                 /\ error_file_id'[u] = error_file_id[u]
            /\ pc[u] = "poll_sleep" /\ pc'[u] /= pc[u] =>
                 /\ UNCHANGED <<reqs, mark, output_file_id, error_file_id>>
                 /\ pc'[u] = IF nonterm[u] = max_polls
                             THEN "retrieve_output" ELSE "polling"
                 /\ upc'[u] = "running"]_vars
    /\ \A u \in Users : pc[u] = "polling" ~> pc[u] \in {"retrieve_output"}

\* The budget is used up: 60 non-terminal responses, no failure recorded.
C8_Witness ==
    /\ pc[1] = "retrieve_output" /\ upc[1] = "running"
    /\ nonterm[1] = max_polls /\ reqs[1] = max_polls
    /\ Polled(1, NonTerminal)
    /\ mark[1] = "success"

\* C9: retrieve_output sends nothing when output_file_id is unset and
\* retrieve_errors sends nothing when error_file_id is unset; with the
\* identifier set the step sends exactly one GET, for that file's content.
C9_RetrieveOnlyWhenSet ==
    [][\A u \in Users :
         /\ pc[u] = "retrieve_output" /\ pc'[u] /= pc[u] =>
              IF Truthy(output_file_id[u])
              THEN /\ reqs'[u] = 1
                   /\ req'[u] = Request(OutputName, output_file_id[u], Cred(u))
              ELSE reqs'[u] = 0 /\ req'[u] = req[u] /\ resp'[u] = resp[u]
         /\ pc[u] = "retrieve_errors" /\ pc'[u] /= pc[u] =>
              IF Truthy(error_file_id[u])
              THEN /\ reqs'[u] = 1
                   /\ req'[u] = Request(ErrorsName, error_file_id[u], Cred(u))
              ELSE reqs'[u] = 0 /\ req'[u] = req[u] /\ resp'[u] = resp[u]]_vars

\* A finished batch with an error file and no output file: retrieve_output
\* sent nothing and retrieve_errors sent its one GET.
C9_Witness ==
    /\ pc[1] = "upload_file"
    /\ output_file_id[1] = None /\ error_file_id[1] = "file-err-1"
    /\ reqs[1] = 1
    /\ req[1].name = ErrorsName /\ req[1].id = "file-err-1"

Unparsed(u, codes, field) ==
    /\ resp[u].status_code \in codes
    /\ \/ resp[u].body = "invalid"
       \/ resp[u].body = "object" /\ ~Truthy(resp[u][field])

\* C11: in upload_file, create_batch and poll_batch_status a success-status
\* response whose body is malformed or lacks the expected field (id, id,
\* status) marks the step failed; a 200/201 create-batch response without an
\* id is never recorded as a success.
C11_UnparsedBodyFails ==
    \A u \in Users :
        /\ pc[u] = "verify_upload" /\ req[u].name = UploadName
           /\ Unparsed(u, {200, 201}, "id") => mark[u] = "failure"
        /\ pc[u] = "poll_batch_status" /\ req[u].name = CreateName
           /\ Unparsed(u, {200, 201}, "id") => mark[u] = "failure"
        /\ pc[u] = "retrieve_output" /\ req[u].name = PollName
           /\ Unparsed(u, {200}, "status") => mark[u] = "failure"

\* User u has taken a step.
Acted(u) ==
    <<upc[u], pc[u], reqs[u], req[u], resp[u], mark[u]>>' /=
        <<upc[u], pc[u], reqs[u], req[u], resp[u], mark[u]>>

Successors(t) ==
    CASE t = "none" -> {"upload_file"}
      [] t = "upload_file" -> {"verify_upload"}
      [] t = "verify_upload" -> {"create_batch"}
      [] t = "create_batch" -> {"poll_batch_status"}
      [] t = "poll_batch_status" -> {"polling"}
      [] t = "polling" -> {"poll_sleep", "retrieve_output"}
      [] t = "poll_sleep" -> {"polling", "retrieve_output"}
      [] t = "retrieve_output" -> {"retrieve_errors"}
      [] t = "retrieve_errors" -> {"upload_file"}

\* C13: no step is retried: the steps of an iteration run in the order
\* upload, verify, create batch, poll, retrieve output, retrieve errors (or
\* the iteration is aborted), and each step but the poll sends at most one
\* request whatever its outcome.
C13_NoRetry ==
    /\ [](\A u \in Users :
            req[u].name \notin {PollName, "none"} => reqs[u] <= 1)
    /\ [][\A u \in Users :
            upc[u] = "running" /\ Acted(u) =>
                /\ \/ pc'[u] \in Successors(pc[u])
                   \/ pc'[u] = "none" /\ upc'[u] = "ready" /\ reqs'[u] = 0
                /\ pc[u] \notin {"polling", "poll_sleep"} => reqs'[u] <= 1]_vars

\* A create_batch answered 500: one request, a failure, and the poll step next.
C13_Witness ==
    /\ pc[1] = "poll_batch_status" /\ req[1].name = CreateName
    /\ resp[1].status_code = 500 /\ mark[1] = "failure" /\ reqs[1] = 1

\* C17: the poll step sleeps after each non-terminal recognised response and
\* only then: its sleeps are as many as the non-terminal responses it got, so
\* a step that uses up its 60 attempts sleeps a 60th time after its last
\* request, and a step ended by a terminal status, an unknown status or a
\* non-200 response does not sleep after that response.
C17_SleepPerNonTerminal ==
    /\ [](\A u \in Users :
            /\ pc[u] = "polling" => sleeps[u] = nonterm[u]
            /\ pc[u] = "poll_sleep" => sleeps[u] + 1 = nonterm[u]
            /\ pc[u] = "retrieve_output" =>
                 /\ sleeps[u] = nonterm[u]
                 /\ Polled(u, NonTerminal) => sleeps[u] = max_polls)
    /\ [][\A u \in Users :
            /\ pc[u] = "polling" /\ pc'[u] = "retrieve_output" =>
                 sleeps'[u] = sleeps[u] /\ nonterm'[u] = nonterm[u]
            /\ pc[u] = "polling" /\ pc'[u] = "poll_sleep" =>
                 sleeps'[u] = sleeps[u] /\ nonterm'[u] = nonterm[u] + 1
            /\ pc[u] = "poll_sleep" /\ pc'[u] /= pc[u] =>
                 sleeps'[u] = sleeps[u] + 1 /\ reqs'[u] = reqs[u]]_vars

\* The 60th sleep, of 30 s, after the 60th request.
C17_Witness ==
    /\ pc[1] = "retrieve_output" /\ req[1].name = PollName
    /\ reqs[1] = max_polls /\ sleeps[1] = max_polls
    /\ last_sleep[1] = Ticks(30)

\* Token k was the 'key' of a successful key-creation response of this run.
Issued(k) ==
    \E v \in Users :
        /\ req[v].name \in {KeyName, "workflow"} /\ upc[v] \notin {"new", "creating"}
        /\ resp[v].status_code \in {200, 201}
        /\ resp[v].body = "object"
        /\ resp[v].key = k

\* C16: once BatchUser.on_start has returned, the client is in exactly one
\* of two modes: basic credentials set and no bearer header, or a bearer
\* header set and the basic credentials cleared; and every bearer token sent
\* was the 'key' of a successful key-creation response of this run.
C16_OneAuthMode ==
    \A u \in Users :
        /\ upc[u] = "ready" =>
             \/ auth[u] /\ bearer[u] = None
             \/ ~auth[u] /\ bearer[u] /= None /\ Issued(bearer[u])
        /\ req[u].name = "workflow" =>
             \/ req[u].cred = "basic" /\ auth[u]
             \/ req[u].cred = bearer[u] /\ ~auth[u] /\ Issued(req[u].cred)

\* User 1 obtained sk-1 and user 2 sends it as its bearer token.
C16_Witness ==
    /\ resp[1].status_code = 201 /\ resp[1].key = "sk-1"
    /\ upc[2] = "ready" /\ ~auth[2] /\ bearer[2] = "sk-1"
    /\ req[2].name = "workflow" /\ req[2].cred = "sk-1"

\* The workflow state of user v.
Workflow(v) ==
    <<upc[v], pc[v], file_id[v], batch_id[v], output_file_id[v],
      error_file_id[v]>>

\* User v can take its next step.
CanStep(v) ==
    ENABLED (\/ BatchWorkflow_on_start(v) \/ upload_file(v)
             \/ verify_upload(v) \/ create_batch(v)
             \/ poll_batch_status(v) \/ poll_attempt(v) \/ poll_sleep(v)
             \/ retrieve_output(v) \/ retrieve_errors(v))

\* C14: failures stay with the user they happen to: a step of one user,
\* failed or not, changes no other user's workflow state (the four
\* identifiers and the position in the task sequence), so each user's
\* workflow state is written by its own steps only; and whatever one user
\* has recorded, every other started user is still running and can take its
\* next step.
C14_FailuresAreLocal ==
    /\ [](\A u \in Users : \A v \in Users \ {u} :
            mark[u] \in {"failure", "error"} /\ upc[v] /= "off" =>
                upc[v] \in {"ready", "running"} /\ CanStep(v))
    /\ [][\A u \in Users : \A v \in Users \ {u} :
            Acted(u) \/ Workflow(u)' /= Workflow(u) =>
                Workflow(v)' = Workflow(v)]_vars

\* User 1's upload has failed while user 2 holds the identifiers of its
\* completed batch.
C14_Witness ==
    /\ req[1].name = UploadName /\ mark[1] = "failure"
    /\ pc[1] = "verify_upload" /\ file_id[1] = None
    /\ pc[2] = "retrieve_errors" /\ mark[2] = "success"
    /\ file_id[2] = "file-abc" /\ batch_id[2] = "batch-1"
    /\ output_file_id[2] = "file-out-1" /\ error_file_id[2] = "file-err-1"

\* C15: on_test_stop compares the statistics with the thresholds whether or
\* not the export of the metrics succeeded; it reports a violation exactly
\* when p95 is greater than its threshold or the failure ratio is greater
\* than its threshold, equality not counting; and it leaves the exit status
\* of the process as it was.
C15_ThresholdCheck ==
    /\ [](stop.phase = "stopped" =>
            /\ stop.checked
            /\ "p95" \in stop.failures <=> stop.p95 > stop.p95_threshold_ms
            /\ "error_rate" \in stop.failures <=>
                   stop.error_rate > stop.error_rate_threshold
            /\ stop.report = "PERFORMANCE ASSERTION FAILURES" <=>
                   \/ stop.p95 > stop.p95_threshold_ms
                   \/ stop.error_rate > stop.error_rate_threshold
            /\ stop.report = "ALL PERFORMANCE ASSERTIONS PASSED" <=>
                   /\ stop.p95 <= stop.p95_threshold_ms
                   /\ stop.error_rate <= stop.error_rate_threshold)
    /\ [][stop'.process_exit_code = stop.process_exit_code]_vars

\* The export failed, p95 equals its threshold and the failure ratio is above
\* its own: the error rate alone is reported.
C15_Witness ==
    /\ stop.phase = "stopped" /\ ~stop.exported
    /\ stop.p95 = 1000 /\ stop.p95_threshold_ms = 1000
    /\ stop.error_rate = 11 /\ stop.error_rate_threshold = 10
    /\ stop.failures = {"error_rate"}
    /\ stop.report = "PERFORMANCE ASSERTION FAILURES"

====
